---- MODULE Spec2Model ----
(***************************************************************************)
(* dev-quote-bot: the daily quote job of src/index.js (webhook or bot      *)
(* client delivery, generation with a bounded 429 retry) and of the older  *)
(* duplicate entry point src/unnamed/part_000 (bot client only).           *)
(*                                                                         *)
(* Strings are sequences of one-character strings; a fixed text that the   *)
(* program only concatenates (a header, a fallback line, a template part)  *)
(* is one symbol, named after the text.  JS arrays are 0-based, sequences  *)
(* here 1-based: fallbacksEN[0] of the source is fallbacksEN[1].           *)
(***************************************************************************)
EXTENDS Integers, Sequences, FiniteSets, TLC

\* ------------------------------------------------------------------ bounds
\* longest message content the generation endpoint returns
MaxLen == 4
\* longest task list the task tracker returns (beyond the cap of 5)
MaxTasks == 6
\* scheduled ticks per process
MaxTicks == 2

\* ------------------------------------------------------------- JS values
\* null / undefined where a string is expected: a symbol no string holds
Null == <<"null">>
\* JS truthiness of a string-or-null value: null and '' are falsy
Falsy(v) == v = Null \/ v = <<>>

\* characters of a message content
Chars == {"<", "s", ">", " ", "q"}
Whitespace == {" ", "\n", "\t"}

RECURSIVE StrsUpTo(_)
StrsUpTo(n) ==
  IF n = 0 THEN {<<>>}
  ELSE LET shorter == StrsUpTo(n - 1)
       IN  shorter \cup {Append(s, c) : s \in {t \in shorter : Len(t) = n - 1}, c \in Chars}

\* String.prototype.trim
RECURSIVE trimStart(_)
trimStart(s) ==
  IF s # <<>> /\ Head(s) \in Whitespace THEN trimStart(Tail(s)) ELSE s

RECURSIVE trimEnd(_)
trimEnd(s) ==
  IF s # <<>> /\ s[Len(s)] \in Whitespace THEN trimEnd(SubSeq(s, 1, Len(s) - 1)) ELSE s

trim(s) == trimEnd(trimStart(s))

StartsWith(s, t) == Len(t) <= Len(s) /\ SubSeq(s, 1, Len(t)) = t

\* s.split(t).join(''): every occurrence of t, found left to right without
\* overlap in one pass, is dropped
RECURSIVE splitJoin(_, _)
splitJoin(s, t) ==
  IF s = <<>> THEN <<>>
  ELSE IF StartsWith(s, t) THEN splitJoin(SubSeq(s, Len(t) + 1, Len(s)), t)
  ELSE <<Head(s)>> \o splitJoin(Tail(s), t)

\* the sentinel tokens, in the order the loop removes them; "U+FF5C" and
\* "U+2581" stand for the fullwidth bar and the lower-block characters
tokens ==
  << <<"<","|","b","e","g","i","n","_","o","f","_","t","e","x","t","|",">">>,
     <<"<","|","e","n","d","_","o","f","_","t","e","x","t","|",">">>,
     <<"<","U+FF5C","b","e","g","i","n","U+2581","o","f","U+2581",
       "s","e","n","t","e","n","c","e","U+FF5C",">">>,
     <<"<","s",">">>,
     <<"<","/","s",">">>,
     <<"<","B","O","S",">">>,
     <<"<","E","O","S",">">>,
     <<"<","|","i","m","_","s","t","a","r","t","|",">">>,
     <<"<","|","i","m","_","e","n","d","|",">">> >>

RECURSIVE stripAll(_, _)
stripAll(s, ts) ==
  IF ts = <<>> THEN s ELSE stripAll(splitJoin(s, Head(ts)), Tail(ts))

\* let cleaned = raw; for (const t of tokens) ...; return cleaned.trim()
cleaned(raw) == trim(stripAll(raw, tokens))


\* ------------------------------------------------------------------ state
VARIABLES
  program,      \* which entry point runs: "index" (src/index.js) or "part_000"
  env,          \* process.env, read once at module load
  phase,        \* "start", "login" (client.login pending), "up", "login_failed"
  alive,        \* FALSE once an unhandled rejection has ended the process
  registered,   \* number of cron.schedule(DAILY_CRON, postDailyQuote) calls made
  ticks,        \* scheduled ticks so far
  triggered,    \* calls of postDailyQuote made by ticks so far
  startupRuns,  \* calls of postDailyQuote made by the SEND_NOW branch
  pendingRuns,  \* calls of postDailyQuote not yet begun, by caller
  pc,           \* where the current run of postDailyQuote is suspended
  caller,       \* who called the current run: "cron" or "startup"
  outcome,      \* of the last run begun: "none", "running", "returned", "rejected"
  log,          \* console messages of the current run
  ctx,          \* const ctx = await fetchClickUpContext()
  gets,         \* GET requests to the task tracker in the current run
  clickupRes,   \* what the task tracker answered
  prompt,       \* const prompt = buildPrompt(contextLines)
  attempt,      \* loop counter of generateQuote
  genRequests,  \* prompts POSTed to the generation endpoint in the current call
  statuses,     \* response statuses received in the current call, in order
  lastRes,      \* the last answer of the generation endpoint
  waits,        \* delays (ms) started in the current call, in order
  lastErr,      \* let lastErr
  quote,        \* const quote = await generateQuote(ctx)
  text,         \* let text
  payloadText,  \* the composed message
  posts,        \* POSTs to the webhook URL in the current run
  whRes,        \* status the webhook answered (0: network error, -1: none)
  resolves,     \* client.channels.fetch calls in the current run
  channel,      \* what client.channels.fetch gave
  sends         \* channel.send calls in the current run

cfgVars  == <<program, env>>
procVars == <<phase, alive, registered, ticks, triggered, startupRuns, pendingRuns>>
ctlVars  == <<pc, caller, outcome, log>>
fetchVars == <<ctx, gets, clickupRes>>
genVars  == <<prompt, attempt, genRequests, statuses, lastRes, waits, lastErr, quote>>
sendVars == <<text, payloadText, posts, whRes, resolves, channel, sends>>
vars == <<cfgVars, procVars, ctlVars, fetchVars, genVars, sendVars>>

\* ---------------------------------------------------------- configuration
Languages == {"EN", "MM", "EN_MM", "FR"}

\* the environments a process of either program can start in (TRUE: the
\* variable is set to a non-empty value)
Envs ==
  [DISCORD_WEBHOOK_URL : BOOLEAN, LANGUAGE : Languages, SEND_NOW : BOOLEAN,
   CLICKUP_TOKEN : BOOLEAN, CLICKUP_TEAM_ID : BOOLEAN, AI_MODE : {"ollama", "openai"}]

\* faulty variant: the webhook URL is ignored
USE_WEBHOOK_never == FALSE

\* const USE_WEBHOOK = !!DISCORD_WEBHOOK_URL
USE_WEBHOOK == env.DISCORD_WEBHOOK_URL

\* -------------------------------------------------------------- responses
Statuses == {200, 429, 500}
\* Response.ok
ok(status) == status >= 200 /\ status <= 299

NoRes == [status |-> -1, kind |-> "none", content |-> <<>>]
\* fetch rejected: no response at all
NetworkError == [status |-> 0, kind |-> "network_error", content |-> <<>>]

\* bodies of the generation endpoint: "malformed" is not JSON, "error" is
\* {error: {message}}, "other" is JSON with neither choices nor error nor
\* response, "choices" carries choices[0].message.content, "response" carries
\* the field of that name
GenResponses(okContents, errContents) ==
  {NetworkError}
  \cup [status : {s \in Statuses : ok(s)}, kind : {"malformed", "error", "other"}, content : {<<>>}]
  \cup [status : {s \in Statuses : ok(s)}, kind : {"choices"}, content : okContents]
  \cup [status : {s \in Statuses : ~ok(s)}, kind : {"malformed", "error", "other"}, content : {<<>>}]
  \cup [status : {s \in Statuses : ~ok(s)}, kind : {"choices"}, content : errContents]

\* tasks of the task tracker: an object with a name and status.status ('' when
\* absent or empty), or null
TaskAt(i) == [kind |-> "object", name |-> ToString(i), status |-> "open"]
Defective(i, k) ==
  CASE k = "no_name"   -> [kind |-> "object", name |-> "", status |-> "open"]
    [] k = "no_status" -> [kind |-> "object", name |-> ToString(i), status |-> ""]
    [] k = "null"      -> [kind |-> "null", name |-> "", status |-> ""]

TaskLists ==
  { [i \in 1..n |-> IF i = d THEN Defective(i, k) ELSE TaskAt(i)] :
      n \in 0..MaxTasks, d \in 0..MaxTasks, k \in {"no_name", "no_status", "null"} }

NoTasksRes == [status |-> -1, kind |-> "none", tasks |-> <<>>]
TasksNetworkError == [status |-> 0, kind |-> "network_error", tasks |-> <<>>]

\* bodies of the task tracker: "malformed" is not JSON, "json_null" is the
\* JSON value null, "no_tasks" an object without tasks, "tasks_not_array" an
\* object whose tasks is a number, "tasks" an object whose tasks is a list
ClickUpResponses(statusSet, lists) ==
  {TasksNetworkError}
  \cup [status : statusSet,
        kind : {"malformed", "json_null", "no_tasks", "tasks_not_array"}, tasks : {<<>>}]
  \cup [status : statusSet, kind : {"tasks"}, tasks : lists]


\* ----------------------------------------------------- fetchClickUpContext
\* `Task "${title}" -- status: ${status}` as its four parts (the dash of the
\* source is an em dash)
contextLine(t) ==
  <<"Task \"", IF t.name = "" THEN "Untitled" ELSE t.name,
    "\" -- status: ", IF t.status = "" THEN "unknown" ELSE t.status>>

\* (data.tasks || []).slice(0, 5)
slice5(tasks) == SubSeq(tasks, 1, IF Len(tasks) < 5 THEN Len(tasks) ELSE 5)

\* whether the try block of fetchClickUpContext throws on this answer: fetch
\* rejects, res.json() rejects, data is null, tasks has no slice, or a task
\* that is mapped is null
clickUpThrows(res) ==
  \/ res.kind \in {"network_error", "malformed", "json_null", "tasks_not_array"}
  \/ res.kind = "tasks" /\ \E i \in 1..Len(slice5(res.tasks)) : res.tasks[i].kind = "null"

\* the value fetchClickUpContext returns for this answer
contextLines(res) ==
  IF clickUpThrows(res) \/ res.kind # "tasks" THEN <<>>
  ELSE [i \in 1..Len(slice5(res.tasks)) |-> contextLine(res.tasks[i])]

\* first half of fetchClickUpContext: without both credentials it returns []
\* at once, otherwise it issues the GET and suspends
fetchClickUpContext_call ==
  /\ alive /\ pc = "fetch_call"
  /\ IF ~env.CLICKUP_TOKEN \/ ~env.CLICKUP_TEAM_ID
       THEN /\ ctx' = <<>>
            /\ pc' = "fetch_ret"
            /\ UNCHANGED gets
       ELSE /\ gets' = gets + 1
            /\ pc' = "fetch_wait"
            /\ UNCHANGED ctx
  /\ UNCHANGED <<cfgVars, procVars, caller, outcome, log, clickupRes, genVars, sendVars>>

\* second half: the answer arrives
fetchClickUpContext_response(answers) ==
  /\ alive /\ pc = "fetch_wait"
  /\ \E res \in answers :
       /\ clickupRes' = res
       /\ ctx' = contextLines(res)
       /\ log' = IF clickUpThrows(res) THEN log \cup {"ClickUp fetch error:"} ELSE log
  /\ pc' = "fetch_ret"
  /\ UNCHANGED <<cfgVars, procVars, caller, outcome, gets, genVars, sendVars>>

\* ------------------------------------------------------------ buildPrompt
RECURSIVE joinLines(_)
\* contextLines.join('\n- ')
joinLines(ls) ==
  IF ls = <<>> THEN <<>>
  ELSE IF Len(ls) = 1 THEN Head(ls)
  ELSE Head(ls) \o <<"\n- ">> \o joinLines(Tail(ls))

ctxBlock(ls) == IF Len(ls) > 0 THEN <<"Context:\n- ">> \o joinLines(ls) \o <<"\n">> ELSE <<>>

\* src/index.js: the template, with the context block between its two parts
buildPrompt(ls) == <<"\nYou are a friendly CTO ...\n">> \o ctxBlock(ls) \o <<"Requirements: ...">>

\* part_000: the same template with a line break after the context block
part000_buildPrompt(ls) ==
  <<"\nYou are a friendly CTO ...\n">> \o ctxBlock(ls) \o <<"\n", "Requirements: ...">>

\* ---------------------------------------------------- generateQuote (index)
\* faulty variant: one attempt more
loopContinues_four(a) == a < 4
\* for (...; attempt < 3; ...)
loopContinues(a) == a < 3

\* faulty variant: server errors are retried too
retryable_5xx(status) == status = 429 \/ status >= 500
\* if (res.status === 429)
retryable(status) == status = 429

\* const waitMs = 600 * (attempt + 1)
waitMs(a) == 600 * (a + 1)

\* data?.choices?.[0]?.message?.content || ''
raw(res) == IF res.kind = "choices" THEN res.content ELSE <<>>

\* data?.error?.message || `HTTP ${res.status}`
errorOf(res) == IF res.kind = "error" THEN "upstream message" ELSE ToString(res.status)

\* faulty variant: the catch block rethrows
generateQuote_catch_rethrow == "rejected"
\* catch (e) { console.error('AI error:', e); return null; }: the call returns
generateQuote_catch == "returned"

\* generateQuote up to its first await: the prompt is built and attempt 0 is sent
generateQuote_call ==
  /\ alive /\ pc = "fetch_ret" /\ program = "index"
  /\ prompt' = buildPrompt(ctx)
  /\ attempt' = 0
  /\ lastErr' = ""
  /\ genRequests' = <<buildPrompt(ctx)>>
  /\ pc' = "gen_wait"
  /\ UNCHANGED <<cfgVars, procVars, caller, outcome, log, fetchVars,
                 statuses, lastRes, waits, quote, sendVars>>

\* the answer to the attempt in flight
generateQuote_response(answers) ==
  /\ alive /\ pc = "gen_wait" /\ program = "index"
  /\ \E res \in answers :
       /\ lastRes' = res
       /\ IF res.kind = "network_error"
            THEN /\ log' = log \cup {"AI error:"}
                 /\ quote' = Null
                 /\ IF generateQuote_catch = "returned"
                      THEN pc' = "gen_ret" /\ UNCHANGED outcome
                      ELSE pc' = "idle" /\ outcome' = "rejected"
                 /\ UNCHANGED <<statuses, lastErr, waits>>
            ELSE /\ statuses' = Append(statuses, res.status)
                 /\ UNCHANGED outcome
                 /\ IF ok(res.status)
                      THEN /\ quote' = cleaned(raw(res))
                           /\ pc' = "gen_ret"
                           /\ UNCHANGED <<lastErr, waits, log>>
                      ELSE /\ lastErr' = errorOf(res)
                           /\ IF retryable(res.status)
                                THEN /\ waits' = Append(waits, waitMs(attempt))
                                     /\ log' = log \cup {"Rate limited (429). Retrying"}
                                     /\ pc' = "gen_delay"
                                     /\ UNCHANGED quote
                                ELSE /\ log' = log \cup {"OpenAI error:"}
                                     /\ quote' = Null
                                     /\ pc' = "gen_ret"
                                     /\ UNCHANGED waits
  /\ UNCHANGED <<cfgVars, procVars, caller, fetchVars, prompt, attempt, genRequests, sendVars>>

\* the delay is over: continue; attempt++; then the loop test, and either the
\* next POST of the same prompt or the exit after the loop
generateQuote_retry ==
  /\ alive /\ pc = "gen_delay" /\ program = "index"
  /\ attempt' = attempt + 1
  /\ IF loopContinues(attempt + 1)
       THEN /\ genRequests' = Append(genRequests, prompt)
            /\ pc' = "gen_wait"
            /\ UNCHANGED <<quote, log>>
       ELSE /\ log' = log \cup {"OpenAI error after retries:"}
            /\ quote' = Null
            /\ pc' = "gen_ret"
            /\ UNCHANGED genRequests
  /\ UNCHANGED <<cfgVars, procVars, caller, outcome, fetchVars,
                 prompt, statuses, lastRes, waits, lastErr, sendVars>>


\* ---------------------------------------------------------- postDailyQuote
\* each fallback line is one symbol; the Burmese lines are named, not spelt
fallbacksEN ==
  << <<"Small commits, big momentum. Ship something today.">>,
     <<"Readability is a feature. Future you will thank present you.">> >>
fallbacksMM == << <<"(Burmese fallback line 1)">>, <<"(Burmese fallback line 2)">> >>

\* faulty variant: the second line of each list is taken
fallbackText_second(lang) ==
  IF lang = "MM" THEN fallbacksMM[2]
  ELSE IF lang = "EN_MM" THEN fallbacksEN[2] \o <<"\n">> \o fallbacksMM[2]
  ELSE fallbacksEN[2]

\* the three branches under if (!text)
fallbackText(lang) ==
  IF lang = "MM" THEN fallbacksMM[1]
  ELSE IF lang = "EN_MM" THEN fallbacksEN[1] \o <<"\n">> \o fallbacksMM[1]
  ELSE fallbacksEN[1]

\* let text = quote; if (!text) { ... }
textFor(q) == IF Falsy(q) THEN fallbackText(env.LANGUAGE) ELSE q

\* the header; its first character in the source is the sun emoji
header == <<"(sun) **Daily Dev Motivation**">>
composed(t) == header \o <<"\n">> \o t

\* how a run ends: an unhandled rejection of the call made at startup ends the
\* process (index.js:48 awaits it in an async listener, part_000:32 chains
\* .then without a catch); the scheduler absorbs a rejection of its task
finish(result) ==
  /\ pc' = "idle"
  /\ outcome' = result
  /\ alive' = ~(result = "rejected" /\ caller = "startup")
  /\ UNCHANGED <<phase, registered, ticks, triggered, startupRuns, pendingRuns>>

\* a pending call of postDailyQuote begins and runs to its first await
postDailyQuote_begin ==
  /\ alive /\ pc = "idle" /\ pendingRuns # <<>>
  /\ caller' = Head(pendingRuns)
  /\ pendingRuns' = Tail(pendingRuns)
  /\ outcome' = "running"
  /\ log' = {}
  /\ ctx' = <<>> /\ gets' = 0 /\ clickupRes' = NoTasksRes
  /\ prompt' = <<>> /\ attempt' = 0 /\ genRequests' = <<>> /\ statuses' = <<>>
  /\ lastRes' = NoRes /\ waits' = <<>> /\ lastErr' = "" /\ quote' = Null
  /\ text' = <<>> /\ payloadText' = <<>> /\ posts' = <<>> /\ whRes' = -1
  /\ channel' = "none" /\ sends' = <<>>
  /\ IF program = "index"
       THEN pc' = "fetch_call" /\ resolves' = 0
       ELSE pc' = "resolve_wait" /\ resolves' = 1
  /\ UNCHANGED <<cfgVars, phase, alive, registered, ticks, triggered, startupRuns>>

\* src/index.js: from the return of generateQuote to the await of the delivery
postDailyQuote_dispatch ==
  /\ alive /\ pc = "gen_ret" /\ program = "index"
  /\ text' = textFor(quote)
  /\ payloadText' = composed(textFor(quote))
  /\ IF USE_WEBHOOK
       THEN /\ posts' = Append(posts, [url |-> "DISCORD_WEBHOOK_URL",
                                       content |-> composed(textFor(quote))])
            /\ pc' = "webhook_wait"
            /\ UNCHANGED resolves
       ELSE /\ resolves' = resolves + 1
            /\ pc' = "resolve_wait"
            /\ UNCHANGED posts
  /\ UNCHANGED <<cfgVars, procVars, caller, outcome, log, fetchVars, genVars,
                 whRes, channel, sends>>

\* statuses the webhook answers with; 0 is a network error (fetch rejects)
WebhookAnswers == {0, 204, 404}

\* src/index.js: the webhook POST settles; only a rejection reaches the catch
postDailyQuote_webhook_done ==
  /\ pc = "webhook_wait" /\ alive
  /\ \E st \in WebhookAnswers :
       /\ whRes' = st
       /\ log' = IF st = 0 THEN log \cup {"Webhook send failed:"}
                 ELSE log \cup {"Sent daily quote via Discord Webhook."}
  /\ finish("returned")
  /\ UNCHANGED <<cfgVars, caller, fetchVars, genVars,
                 text, payloadText, posts, resolves, channel, sends>>

\* what client.channels.fetch gives: a rejection, null, a channel of another
\* type, or a guild text channel
Channels == {"rejected", "null", "GuildVoice", "GuildText"}

\* src/index.js: client.channels.fetch settles
postDailyQuote_resolved ==
  /\ pc = "resolve_wait" /\ alive /\ program = "index"
  /\ \E ch \in Channels :
       /\ channel' = ch
       /\ CASE ch = "rejected" ->
                 /\ finish("rejected")
                 /\ UNCHANGED <<log, sends>>
            [] ch \in {"null", "GuildVoice"} ->
                 /\ log' = log \cup {"Channel not found or not a GuildText channel."}
                 /\ finish("returned")
                 /\ UNCHANGED sends
            [] ch = "GuildText" ->
                 /\ sends' = Append(sends, payloadText)
                 /\ pc' = "send_wait"
                 /\ UNCHANGED <<procVars, outcome, log>>
  /\ UNCHANGED <<cfgVars, caller, fetchVars, genVars, text, payloadText, posts, whRes, resolves>>

\* channel.send settles (both programs): a rejection is not caught
postDailyQuote_sent ==
  /\ pc = "send_wait" /\ alive
  /\ \E sent \in BOOLEAN :
       IF sent
         THEN log' = log \cup {"Sent daily quote."} /\ finish("returned")
         ELSE UNCHANGED log /\ finish("rejected")
  /\ UNCHANGED <<cfgVars, caller, fetchVars, genVars, sendVars>>

\* -------------------------------------------------- part_000: the older job
\* part_000: client.channels.fetch settles; a wrong channel returns silently,
\* a right one lets the run go on to the context fetch
part000_postDailyQuote_resolved ==
  /\ pc = "resolve_wait" /\ alive /\ program = "part_000"
  /\ \E ch \in Channels :
       /\ channel' = ch
       /\ CASE ch = "rejected" -> finish("rejected")
            [] ch \in {"null", "GuildVoice"} -> finish("returned")
            [] ch = "GuildText" -> pc' = "fetch_call" /\ UNCHANGED <<procVars, outcome>>
  /\ UNCHANGED <<cfgVars, caller, log, fetchVars, genVars,
                 text, payloadText, posts, whRes, resolves, sends>>

\* part_000: generateQuote sends its single request
part000_generateQuote_call ==
  /\ alive /\ pc = "fetch_ret" /\ program = "part_000"
  /\ prompt' = part000_buildPrompt(ctx)
  /\ genRequests' = <<part000_buildPrompt(ctx)>>
  /\ pc' = "gen_wait"
  /\ UNCHANGED <<cfgVars, procVars, caller, outcome, log, fetchVars,
                 attempt, statuses, lastRes, waits, lastErr, quote, sendVars>>

\* part_000: what the try block returns for a parsed body, by AI_MODE:
\* (data.response || '').trim() or (data.choices?.[0]?.message?.content || '').trim()
part000_quoteOf(res) ==
  IF env.AI_MODE = "ollama"
    THEN (IF res.kind = "response" THEN trim(res.content) ELSE <<>>)
    ELSE (IF res.kind = "choices" THEN trim(res.content) ELSE <<>>)

\* part_000: the answer arrives; the status is not looked at, a rejection of
\* fetch or of res.json() is caught
part000_generateQuote_response(answers) ==
  /\ alive /\ pc = "gen_wait" /\ program = "part_000"
  /\ \E res \in answers :
       /\ lastRes' = res
       /\ statuses' = IF res.kind = "network_error" THEN statuses ELSE Append(statuses, res.status)
       /\ IF res.kind \in {"network_error", "malformed"}
            THEN quote' = Null /\ log' = log \cup {"AI error:"}
            ELSE quote' = part000_quoteOf(res) /\ UNCHANGED log
  /\ pc' = "gen_ret"
  /\ UNCHANGED <<cfgVars, procVars, caller, outcome, fetchVars,
                 prompt, attempt, genRequests, waits, lastErr, sendVars>>

\* part_000: the fallback, the header and channel.send
part000_postDailyQuote_send ==
  /\ alive /\ pc = "gen_ret" /\ program = "part_000"
  /\ text' = textFor(quote)
  /\ payloadText' = composed(textFor(quote))
  /\ sends' = Append(sends, composed(textFor(quote)))
  /\ pc' = "send_wait"
  /\ UNCHANGED <<cfgVars, procVars, caller, outcome, log, fetchVars, genVars,
                 posts, whRes, resolves, channel>>


\* ---------------------------------------------------- boot and scheduling
\* the calls of postDailyQuote the SEND_NOW branch adds
startupCalls == IF env.SEND_NOW THEN <<"startup">> ELSE <<>>

\* src/index.js: module load. Webhook mode registers the job and makes the
\* SEND_NOW call at once; bot mode logs in and attaches the ready listener
boot ==
  /\ phase = "start" /\ alive /\ program = "index"
  /\ IF USE_WEBHOOK
       THEN /\ phase' = "up"
            /\ registered' = registered + 1
            /\ pendingRuns' = pendingRuns \o startupCalls
            /\ startupRuns' = startupRuns + Len(startupCalls)
       ELSE /\ phase' = "login"
            /\ UNCHANGED <<registered, pendingRuns, startupRuns>>
  /\ UNCHANGED <<cfgVars, alive, ticks, triggered, ctlVars, fetchVars, genVars, sendVars>>

\* src/index.js: the ready signal fires and the once-listener runs
clientReady ==
  /\ phase = "login" /\ alive /\ program = "index"
  /\ phase' = "up"
  /\ registered' = registered + 1
  /\ pendingRuns' = pendingRuns \o startupCalls
  /\ startupRuns' = startupRuns + Len(startupCalls)
  /\ UNCHANGED <<cfgVars, alive, ticks, triggered, ctlVars, fetchVars, genVars, sendVars>>

\* part_000: module load attaches two ready listeners and logs in
part000_boot ==
  /\ phase = "start" /\ alive /\ program = "part_000"
  /\ phase' = "login"
  /\ UNCHANGED <<cfgVars, alive, registered, ticks, triggered, startupRuns, pendingRuns,
                 ctlVars, fetchVars, genVars, sendVars>>

\* part_000: the ready signal fires; the listener of line 26 registers the job
\* and makes the SEND_NOW call, the listener of line 146 registers it again
part000_clientReady ==
  /\ phase = "login" /\ alive /\ program = "part_000"
  /\ phase' = "up"
  /\ registered' = registered + 1 + 1
  /\ pendingRuns' = pendingRuns \o startupCalls
  /\ startupRuns' = startupRuns + Len(startupCalls)
  /\ UNCHANGED <<cfgVars, alive, ticks, triggered, ctlVars, fetchVars, genVars, sendVars>>

\* client.login(DISCORD_BOT_TOKEN) rejects (both programs): nothing catches it
loginFailed ==
  /\ phase = "login" /\ alive
  /\ phase' = "login_failed"
  /\ alive' = FALSE
  /\ UNCHANGED <<cfgVars, registered, ticks, triggered, startupRuns, pendingRuns,
                 ctlVars, fetchVars, genVars, sendVars>>

\* the cron expression matches: every registered job calls postDailyQuote
tick ==
  /\ alive /\ registered > 0 /\ ticks < MaxTicks
  /\ ticks' = ticks + 1
  /\ triggered' = triggered + registered
  /\ pendingRuns' = pendingRuns \o [i \in 1..registered |-> "cron"]
  /\ UNCHANGED <<cfgVars, phase, alive, registered, startupRuns,
                 ctlVars, fetchVars, genVars, sendVars>>

\* ------------------------------------------------------------------- Init
runInit ==
  /\ pc = "idle" /\ caller = "none" /\ outcome = "none" /\ log = {}
  /\ ctx = <<>> /\ gets = 0 /\ clickupRes = NoTasksRes
  /\ prompt = <<>> /\ attempt = 0 /\ genRequests = <<>> /\ statuses = <<>>
  /\ lastRes = NoRes /\ waits = <<>> /\ lastErr = "" /\ quote = Null
  /\ text = <<>> /\ payloadText = <<>> /\ posts = <<>> /\ whRes = -1
  /\ resolves = 0 /\ channel = "none" /\ sends = <<>>

procInit ==
  /\ phase = "start" /\ alive = TRUE /\ registered = 0 /\ ticks = 0
  /\ triggered = 0 /\ startupRuns = 0 /\ pendingRuns = <<>>

\* src/index.js never uses AI_MODE, so one value stands for all of them there;
\* part_000 never reads DISCORD_WEBHOOK_URL and is a bot client whatever it is
Init ==
  /\ program \in {"index", "part_000"}
  /\ env \in Envs
  /\ program = "index" => env.AI_MODE = "openai"
  /\ procInit
  /\ runInit

\* answers of the two upstream services in the whole-process specification
ProcessClickUpAnswers ==
  { TasksNetworkError,
    [status |-> 200, kind |-> "tasks", tasks |-> <<TaskAt(1)>>],
    [status |-> 500, kind |-> "no_tasks", tasks |-> <<>>] }

ProcessGenAnswers ==
  { NetworkError,
    [status |-> 200, kind |-> "malformed", content |-> <<>>],
    [status |-> 200, kind |-> "choices", content |-> <<>>],
    [status |-> 200, kind |-> "choices", content |-> <<" ", "q">>],
    [status |-> 200, kind |-> "choices", content |-> <<"<", "s", ">">>],
    [status |-> 429, kind |-> "error", content |-> <<>>],
    [status |-> 500, kind |-> "error", content |-> <<>>],
    [status |-> 500, kind |-> "malformed", content |-> <<>>] }

Part000GenAnswers ==
  ProcessGenAnswers \cup {[status |-> 200, kind |-> "response", content |-> <<" ", "q">>]}

Next ==
  \/ boot
  \/ clientReady
  \/ part000_boot
  \/ part000_clientReady
  \/ loginFailed
  \/ tick
  \/ postDailyQuote_begin
  \/ fetchClickUpContext_call
  \/ fetchClickUpContext_response(ProcessClickUpAnswers)
  \/ generateQuote_call
  \/ generateQuote_response(ProcessGenAnswers)
  \/ generateQuote_retry
  \/ postDailyQuote_dispatch
  \/ postDailyQuote_webhook_done
  \/ postDailyQuote_resolved
  \/ postDailyQuote_sent
  \/ part000_postDailyQuote_resolved
  \/ part000_generateQuote_call
  \/ part000_generateQuote_response(Part000GenAnswers)
  \/ part000_postDailyQuote_send

Spec == Init /\ [][Next]_vars


\* ------------------------------------------- generateQuote on its own
\* a run of src/index.js suspended where fetchClickUpContext has returned
\* zero, one or two context lines and generateQuote is about to be called
GenEnv ==
  [DISCORD_WEBHOOK_URL |-> FALSE, LANGUAGE |-> "EN_MM", SEND_NOW |-> FALSE,
   CLICKUP_TOKEN |-> TRUE, CLICKUP_TEAM_ID |-> TRUE, AI_MODE |-> "openai"]

midRun ==
  /\ phase = "up" /\ alive = TRUE /\ registered = 1 /\ ticks = 1
  /\ triggered = 1 /\ startupRuns = 0 /\ pendingRuns = <<>>
  /\ caller = "cron" /\ outcome = "running" /\ log = {}
  /\ prompt = <<>> /\ attempt = 0 /\ genRequests = <<>> /\ statuses = <<>>
  /\ lastRes = NoRes /\ waits = <<>> /\ lastErr = "" /\ quote = Null
  /\ text = <<>> /\ payloadText = <<>> /\ posts = <<>> /\ whRes = -1
  /\ resolves = 0 /\ channel = "none" /\ sends = <<>>

InitGen ==
  /\ program = "index"
  /\ env = GenEnv
  /\ midRun
  /\ pc = "fetch_ret"
  /\ gets = 1
  /\ clickupRes \in [status : {200}, kind : {"tasks"},
                     tasks : {<<>>, <<TaskAt(1)>>, <<TaskAt(1), Defective(2, "no_name")>>}]
  /\ ctx = contextLines(clickupRes)

NextGen ==
  \/ generateQuote_call
  \/ generateQuote_response(GenResponses(StrsUpTo(MaxLen), {<<"q">>}))
  \/ generateQuote_retry

SpecGen == InitGen /\ [][NextGen]_vars

\* --------------------------------------- fetchClickUpContext on its own
\* a run of src/index.js suspended where fetchClickUpContext is called, under
\* each combination of the two credentials
InitFetch ==
  /\ program = "index"
  /\ env \in {e \in Envs : /\ e.DISCORD_WEBHOOK_URL = FALSE /\ e.LANGUAGE = "EN_MM"
                           /\ e.SEND_NOW = FALSE /\ e.AI_MODE = "openai"}
  /\ midRun
  /\ pc = "fetch_call"
  /\ gets = 0 /\ clickupRes = NoTasksRes /\ ctx = <<>>

NextFetch ==
  \/ fetchClickUpContext_call
  \/ fetchClickUpContext_response(ClickUpResponses(Statuses, TaskLists))

SpecFetch == InitFetch /\ [][NextFetch]_vars


\* ------------------------------------------------------------- properties
Last(q) == q[Len(q)]

\* the call of generateQuote of the current run has returned
genReturned == pc \in {"gen_ret", "webhook_wait", "resolve_wait", "send_wait", "idle"} /\ genRequests # <<>>

\* the text the specification prescribes when generation gives nothing
SpecFallback(lang) ==
  CASE lang = "MM" -> <<"(Burmese fallback line 1)">>
    [] lang = "EN_MM" -> <<"Small commits, big momentum. Ship something today.", "\n",
                           "(Burmese fallback line 1)">>
    [] OTHER -> <<"Small commits, big momentum. Ship something today.">>

SpecHeader == <<"(sun) **Daily Dev Motivation**", "\n">>

\* every content handed to the webhook or to channel.send in the current run
delivered == {posts[i].content : i \in 1..Len(posts)} \cup {sends[i] : i \in 1..Len(sends)}

\* C1: one call of generateQuote issues at most 3 POSTs; after zero, one or
\* two 429s and then a success it returns that response's content with the
\* sentinel tokens removed and trimmed; after three 429s it returns null and
\* no fourth request has been issued.
C1_RetryBound ==
  /\ Len(genRequests) <= 3
  /\ Len(statuses) <= Len(genRequests)
  /\ (/\ pc = "gen_ret" /\ statuses # <<>> /\ ok(Last(statuses))
      /\ \A i \in 1..(Len(statuses) - 1) : statuses[i] = 429)
       => /\ Len(statuses) <= 3
          /\ Len(genRequests) = Len(statuses)
          /\ quote = trim(stripAll(IF lastRes.kind = "choices" THEN lastRes.content ELSE <<>>,
                                   tokens))
          /\ (quote # <<>> => Head(quote) # " " /\ Last(quote) # " ")
  /\ (pc = "gen_ret" /\ statuses = <<429, 429, 429>>)
       => quote = Null /\ Len(genRequests) = 3

\* C1 witness: two 429s, then a success whose content is a sentinel token
\* followed by text; the text alone is returned after 3 requests
C1_Witness ==
  /\ pc = "gen_ret" /\ statuses = <<429, 429, 200>> /\ Len(genRequests) = 3
  /\ lastRes.content = <<"<", "s", ">", "q">> /\ quote = <<"q">>

\* C2: a further request is issued only after a 429 answer to the attempt
\* before it, only after a wait of 600*(i+1) ms for attempt i, and with the
\* same prompt; any other non-success answer ends the call at once with null,
\* starting no wait and no request.
C2_Only429Retried ==
  [][ /\ (Len(genRequests') > Len(genRequests) /\ genRequests # <<>>)
          => /\ Len(statuses) = Len(genRequests)
             /\ Last(statuses) = 429
             /\ Len(waits) = Len(genRequests)
             /\ Last(waits) = 600 * Len(genRequests)
             /\ Len(genRequests') = Len(genRequests) + 1
             /\ Last(genRequests') = genRequests[1]
      /\ (Len(waits') > Len(waits))
          => Len(statuses') = Len(statuses) + 1 /\ Last(statuses') = 429
      /\ (/\ Len(statuses') > Len(statuses)
          /\ ~ok(Last(statuses')) /\ Last(statuses') # 429)
          => /\ pc' = "gen_ret" /\ quote' = Null
             /\ waits' = waits /\ genRequests' = genRequests
      /\ (pc = "gen_ret" => genRequests' = genRequests /\ waits' = waits)
    ]_vars

\* C2 witness: a 429 then a 500: one wait of 600 ms, two requests, null
C2_Witness ==
  /\ pc = "gen_ret" /\ statuses = <<429, 500>> /\ waits = <<600>>
  /\ Len(genRequests) = 2 /\ quote = Null

\* the call of generateQuote ended on a network failure, on a body that is not
\* JSON, or on a status that is neither success nor 429
genFailed ==
  /\ genReturned
  /\ \/ lastRes.kind \in {"network_error", "malformed"}
     \/ (lastRes.status > 0 /\ ~ok(lastRes.status) /\ lastRes.status # 429)

\* C3: generateQuote (src/index.js) never raises: after a network failure, a
\* malformed body or a status that is neither success nor 429 it returns a
\* value the caller treats as absent, the run is rejected by nothing before
\* the delivery, and what postDailyQuote delivers is the fallback text.
C3_NeverRaises ==
  program = "index" =>
    /\ (outcome = "rejected" => resolves > 0)
    /\ (pc \in {"gen_wait", "gen_delay", "gen_ret"} => outcome = "running")
    /\ genFailed =>
         /\ quote = Null \/ quote = <<>>
         /\ (pc # "gen_ret" => text = SpecFallback(env.LANGUAGE))
         /\ \A d \in delivered : d = SpecHeader \o SpecFallback(env.LANGUAGE)

\* C3 witness: the request failed on the network and the fallback was posted
C3_Witness ==
  /\ program = "index" /\ lastRes = NetworkError /\ pc = "idle" /\ outcome = "returned"
  /\ Len(posts) = 1 /\ posts[1].content = SpecHeader \o SpecFallback(env.LANGUAGE)

\* C4: every delivered content is the header, a line break and T, where T is
\* the generation result when that is a non-empty string and otherwise the
\* fallback of the language code; the second fallback lines never appear.
C4_DeliveredText ==
  \A d \in delivered :
    d = SpecHeader \o (IF quote # Null /\ quote # <<>> THEN quote ELSE SpecFallback(env.LANGUAGE))

\* C4 witness: generation returned the empty string under EN_MM and the two
\* first fallback lines were sent to the channel
C4_Witness ==
  /\ program = "index" /\ env.LANGUAGE = "EN_MM" /\ quote = <<>> /\ genRequests # <<>>
  /\ Len(sends) = 1 /\ pc = "idle" /\ outcome = "returned"

\* C5: with a webhook URL configured every run (src/index.js) issues exactly
\* one POST, to that URL, with the header and the text as content, whatever
\* the context fetch and the generation gave, and never resolves or sends to
\* a channel.
C5_WebhookOnePost ==
  (program = "index" /\ env.DISCORD_WEBHOOK_URL) =>
    /\ resolves = 0 /\ sends = <<>> /\ channel = "none"
    /\ Len(posts) <= 1
    /\ outcome # "rejected"
    /\ (pc = "webhook_wait" \/ (pc = "idle" /\ outcome = "returned"))
         => /\ Len(posts) = 1
            /\ posts[1] = [url |-> "DISCORD_WEBHOOK_URL", content |-> SpecHeader \o text]
    /\ (pc \notin {"webhook_wait", "idle"} => posts = <<>>)

\* C5 witness: context fetch and generation both failed on the network and
\* the run still ended after its one POST
C5_Witness ==
  /\ program = "index" /\ env.DISCORD_WEBHOOK_URL /\ pc = "idle" /\ outcome = "returned"
  /\ clickupRes = TasksNetworkError /\ lastRes = NetworkError /\ Len(posts) = 1

\* C6: in bot-client mode a channel id that resolves to nothing or to a
\* channel that is not a guild text channel makes postDailyQuote log an error
\* and send nothing; a send follows only a resolution to a guild text channel.
C6_WrongChannelLogged ==
  /\ (pc = "idle" /\ outcome = "returned" /\ channel \in {"null", "GuildVoice"})
       => /\ "Channel not found or not a GuildText channel." \in log
          /\ sends = <<>>
  /\ (sends # <<>> => channel = "GuildText")

\* C7: whatever its external calls do, a run of postDailyQuote (src/index.js)
\* completes without rejecting, and the process with its registered job
\* stays up for the next tick.
C7_NoRunRejects ==
  program = "index" => /\ outcome # "rejected"
                       /\ (phase = "up" => alive)

\* C8: a webhook delivery that fails, by a network error or by a non-success
\* status, is logged as a failure and never as a successful send.
C8_WebhookFailureLogged ==
  (whRes = 0 \/ (whRes > 0 /\ ~ok(whRes)))
    => /\ "Webhook send failed:" \in log
       /\ "Sent daily quote via Discord Webhook." \notin log

\* the upstream call of fetchClickUpContext failed: network error, non-success
\* response, malformed or unexpectedly shaped body (a null among the tasks
\* that can become lines)
clickUpFailed ==
  \/ clickupRes.kind \in {"network_error", "malformed", "json_null", "tasks_not_array"}
  \/ (clickupRes.status > 0 /\ ~ok(clickupRes.status))
  \/ \E i \in 1..Len(clickupRes.tasks) : i <= 5 /\ clickupRes.tasks[i].kind = "null"

\* C9: fetchClickUpContext returns at most 5 lines; without the token or the
\* team id it returns none and issues no request; when the upstream call fails
\* it returns none; otherwise one line per task for the first min(5, n) tasks,
\* in upstream order, with "Untitled"/"unknown" for an absent title/status.
C9_ContextLines ==
  /\ Len(ctx) <= 5
  /\ (~env.CLICKUP_TOKEN \/ ~env.CLICKUP_TEAM_ID) => gets = 0 /\ ctx = <<>>
  /\ (pc = "fetch_ret" /\ gets = 1) =>
       IF clickUpFailed THEN ctx = <<>>
       ELSE /\ Len(ctx) = (IF Len(clickupRes.tasks) < 5 THEN Len(clickupRes.tasks) ELSE 5)
            /\ \A i \in 1..Len(ctx) :
                 ctx[i] = <<"Task \"",
                            IF clickupRes.tasks[i].name = "" THEN "Untitled"
                            ELSE clickupRes.tasks[i].name,
                            "\" -- status: ",
                            IF clickupRes.tasks[i].status = "" THEN "unknown"
                            ELSE clickupRes.tasks[i].status>>

\* C10: the recurring job is registered exactly once per process, in bot-client
\* mode only once ready has fired and in webhook mode at startup; so each tick
\* starts exactly one run and the immediate-run flag adds exactly one.
C10_RegisteredOnce ==
  /\ registered <= 1
  /\ (phase = "up" => registered = 1)
  /\ (phase # "up" => registered = 0 /\ outcome = "none" /\ pendingRuns = <<>>)
  /\ triggered = ticks
  /\ startupRuns = (IF env.SEND_NOW /\ phase = "up" THEN 1 ELSE 0)

====
